---- MODULE Spec2Model ----
(***************************************************************************)
(* gram2vec vectorizer (src/src/gram2vec/vectorizer.py): the feature       *)
(* registry, the Feature engine (count, align to vocabulary, normalise,    *)
(* prefix) and the pipeline that assembles per-document vectors into the   *)
(* style vector matrix (from_documents, from_jsonlines).                   *)
(*                                                                         *)
(* A text is a sequence of whitespace-separated chunks, each a word or an  *)
(* emoji.  A pandas Series is a sequence of [key, val] entries (its index  *)
(* order is the sequence order); a DataFrame is [index, columns, rows].    *)
(* A float is [k, n, d, s]: k = "num" is the fraction n/d in lowest terms, *)
(* k = "nan" / "inf" are the IEEE values pandas produces on a division by  *)
(* zero, k = "obj" is a non-numeric cell holding s.                        *)
(***************************************************************************)
EXTENDS Integers, Sequences, FiniteSets, TLC

VARIABLES
    vocab,      \* the process-wide Vocabulary Table (from ._load_vocab import vocab)
    op,         \* the API call in progress: "idle" or the function's name
    args,       \* the arguments of that call
    pc,         \* position inside the call
    df,         \* from_jsonlines: the loaded DataFrame
    entries,    \* from_jsonlines: (documents, author_ids, document_ids)
    g2v,        \* the List[Gram2VecDocument] built by _process_documents
    vector_df,  \* the matrix built by _apply_features_to_docs
    trace,      \* the pipeline stages that have run, in order
    ret         \* what the call returned or raised

vars == <<vocab, op, args, pc, df, entries, g2v, vector_df, trace, ret>>

----------------------------------------------------------------------------
(* Bounds of the model *)

MaxTextLen == 3
MaxDocs == 2
MaxConfigLen == 2

----------------------------------------------------------------------------
(* Texts *)

Words == {"a", "b"}
Emojis == {"E1", "E2"}
Chunks == Words \cup Emojis

Texts(n) == UNION {[1..k -> Chunks] : k \in 0..n}

\* The texts handed to the pipelines: empty, one word, one emoji, emoji-only
\* and mixed documents.
PipeTexts == Texts(1) \cup {<<"a", "E2">>, <<"b", "a">>}

----------------------------------------------------------------------------
(* Floats *)

RECURSIVE GCD(_, _)
GCD(a, b) == IF b = 0 THEN a ELSE GCD(b, a % b)

NumV(n, d) == [k |-> "num", n |-> n \div GCD(n, d), d |-> d \div GCD(n, d), s |-> ""]
NaN == [k |-> "nan", n |-> 0, d |-> 0, s |-> ""]
Inf == [k |-> "inf", n |-> 1, d |-> 0, s |-> ""]
ObjV(s) == [k |-> "obj", n |-> 0, d |-> 0, s |-> s]

\* count / divisor as pandas computes it on an integer Series: no exception,
\* 0/0 is NaN and c/0 is inf.
TrueDiv(c, n) ==
    IF n = 0 THEN (IF c = 0 THEN NaN ELSE Inf) ELSE NumV(c, n)

----------------------------------------------------------------------------
(* Sequences, Counter, Series *)

Range(s) == {s[i] : i \in DOMAIN s}

Occ(s, x) == Cardinality({i \in DOMAIN s : s[i] = x})

RECURSIVE Dedup(_)
Dedup(s) ==
    IF s = <<>> THEN <<>>
    ELSE LET r == Dedup(SubSeq(s, 1, Len(s) - 1))
             x == s[Len(s)]
         IN IF x \in Range(r) THEN r ELSE Append(r, x)

\* collections.Counter over a sequence: keys in first-seen order.
Counter(s) == [keys |-> Dedup(s), cnt |-> [x \in Range(s) |-> Occ(s, x)]]

\* pd.Series(counter)
SeriesOf(c) == [i \in 1..Len(c.keys) |-> [key |-> c.keys[i], val |-> c.cnt[c.keys[i]]]]

Keys(series) == [i \in DOMAIN series |-> series[i].key]

RECURSIVE SumVals(_)
SumVals(series) ==
    IF series = <<>> THEN 0 ELSE Head(series).val + SumVals(Tail(series))

RECURSIVE Flatten(_)
Flatten(ss) == IF ss = <<>> THEN <<>> ELSE Head(ss) \o Flatten(Tail(ss))

----------------------------------------------------------------------------
(* External collaborators: the emoji utility and the NLP annotator *)

\* demoji.findall_list(text, desc=False): the emoji occurrences, in order.
findall_list(text) == SelectSeq(text, LAMBDA c : c \in Emojis)

\* demoji.replace(text, "")
demoji_replace(text) == SelectSeq(text, LAMBDA c : c \notin Emojis)

\* The annotation attributes the features read (doc._.<attr>).
Attrs == {"pos_tags", "pos_bigrams", "func_words", "punctuation", "letters",
          "dep_labels", "morph_tags", "sentences"}

\* The annotator on one emoji-stripped text: every chunk is a token, every
\* token contributes its symbol to each attribute, a non-empty text is one
\* sentence, and the embedding has one dimension.
nlp(text) ==
    [text |-> text,
     tokens |-> text,
     ext |-> [a \in Attrs |-> text],
     sents |-> IF text = <<>> THEN <<>> ELSE <<text>>,
     vector |-> <<NumV(Len(text), 1)>>]

\* nlp.pipe(texts): one annotation per text, in submission order.
nlp_pipe(texts) == [i \in DOMAIN texts |-> nlp(texts[i])]

----------------------------------------------------------------------------
(* The Vocabulary Table *)

NoVocab == [has |-> FALSE, syms |-> <<>>]
VocabOf(syms) == [has |-> TRUE, syms |-> syms]

OOV == "OOV_emoji"
EmojiVocab == VocabOf(<<"E1", OOV>>)

VocabChoices == {VocabOf(<<"a", "b">>), VocabOf(<<"a">>), NoVocab}

Density == {"emojis", "punctuation", "func_words", "sentences"}
Distributional == {"pos_unigrams", "pos_bigrams", "dep_labels", "morph_tags", "letters"}

\* A table: one vocabulary (or none) per feature type; num_tokens has none.
VocabTable(vd, vn) ==
    [f \in Density \cup Distributional \cup {"num_tokens"} |->
        IF f = "emojis" THEN EmojiVocab
        ELSE IF f = "num_tokens" THEN NoVocab
        ELSE IF f \in Distributional THEN vd ELSE vn]

VocabTables ==
    {VocabTable(p[1], p[2]) : p \in
        {<<VocabOf(<<"a", "b">>), VocabOf(<<"a", "b">>)>>,
         <<VocabOf(<<"a">>), VocabOf(<<"a">>)>>,
         <<NoVocab, VocabOf(<<"a", "b">>)>>,
         <<VocabOf(<<"a", "b">>), NoVocab>>}}

\* vocab.get(name)
vocab_get(name) == IF name \in DOMAIN vocab THEN vocab[name] ELSE NoVocab

----------------------------------------------------------------------------
(* Feature registry *)

\* The @Feature.register functions, in definition order.
FeatureFuncs ==
    <<"pos_unigrams", "pos_bigrams", "func_words", "punctuation", "letters",
      "dep_labels", "morph_tags", "sentences", "emojis", "num_tokens">>

\* Feature.__init__
Feature(func) == [name |-> func]

\* Feature.register: REGISTERD_FEATURES[func.name] = Feature(func)
register(reg, func) ==
    [n \in DOMAIN reg \cup {func} |-> IF n = func THEN Feature(func) ELSE reg[n]]

RECURSIVE RegisterAll(_)
RegisterAll(fs) ==
    IF fs = <<>> THEN <<>>
    ELSE register(RegisterAll(SubSeq(fs, 1, Len(fs) - 1)), fs[Len(fs)])

REGISTERD_FEATURES == RegisterAll(FeatureFuncs)

----------------------------------------------------------------------------
(* Gram2VecDocument and the feature counting functions *)

Gram2VecDocument(raw, doc, num_tokens, num_sentences) ==
    [raw |-> raw, doc |-> doc, num_tokens |-> num_tokens,
     num_sentences |-> num_sentences]

pos_unigrams(text) == Counter(text.doc.ext["pos_tags"])
pos_bigrams(text) == Counter(text.doc.ext["pos_bigrams"])
func_words(text) == Counter(text.doc.ext["func_words"])
punctuation(text) == Counter(text.doc.ext["punctuation"])
letters(text) == Counter(text.doc.ext["letters"])
dep_labels(text) == Counter(text.doc.ext["dep_labels"])
morph_tags(text) == Counter(text.doc.ext["morph_tags"])
sentences(text) == Counter(text.doc.ext["sentences"])

\* Every emoji of the raw text counts under its own symbol when the emoji
\* vocabulary holds it, under "OOV_emoji" otherwise.
emojis(text) ==
    LET emojis_vocab == vocab_get("emojis")
        extracted_emojis == findall_list(text.raw)
    IN Counter([i \in DOMAIN extracted_emojis |->
                    IF extracted_emojis[i] \in Range(emojis_vocab.syms)
                    THEN extracted_emojis[i] ELSE OOV])

\* Counter({"num_tokens": text.num_tokens}): the key is kept at count 0.
num_tokens(text) ==
    [keys |-> <<"num_tokens">>, cnt |-> [x \in {"num_tokens"} |-> text.num_tokens]]

\* self.func(doc)
func(self, doc) ==
    CASE self.name = "pos_unigrams" -> pos_unigrams(doc)
      [] self.name = "pos_bigrams" -> pos_bigrams(doc)
      [] self.name = "func_words" -> func_words(doc)
      [] self.name = "punctuation" -> punctuation(doc)
      [] self.name = "letters" -> letters(doc)
      [] self.name = "dep_labels" -> dep_labels(doc)
      [] self.name = "morph_tags" -> morph_tags(doc)
      [] self.name = "sentences" -> sentences(doc)
      [] self.name = "emojis" -> emojis(doc)
      [] self.name = "num_tokens" -> num_tokens(doc)

----------------------------------------------------------------------------
(* Feature engine *)

\* Mutant: only the vocabulary symbols the document shows get an entry.
_include_zero_vocab_counts_counted_only(self, counted_features, voc) ==
    LET seen == SelectSeq(voc, LAMBDA v : v \in Range(counted_features.keys))
    IN [i \in 1..Len(seen) |-> [key |-> seen[i], val |-> counted_features.cnt[seen[i]]]]

_include_zero_vocab_counts(self, counted_features, voc) ==
    [i \in 1..Len(voc) |->
        [key |-> voc[i],
         val |-> IF voc[i] \in Range(counted_features.keys)
                 THEN counted_features.cnt[voc[i]] ELSE 0]]

\* Mutant: the sum as it is, zero included.
_get_sum_no_floor(self, counts) == SumVals(counts)

_get_sum(self, counts) ==
    LET total == SumVals(counts) IN IF total > 0 THEN total ELSE 1

_normalize(self, counts, ntokens) ==
    IF self.name = "num_tokens"
    THEN [i \in DOMAIN counts |-> [key |-> counts[i].key, val |-> NumV(counts[i].val, 1)]]
    ELSE IF self.name \in {"emojis", "punctuation", "func_words", "sentences"}
    THEN [i \in DOMAIN counts |->
            [key |-> counts[i].key, val |-> TrueDiv(counts[i].val, ntokens)]]
    ELSE [i \in DOMAIN counts |->
            [key |-> counts[i].key,
             val |-> TrueDiv(counts[i].val, _get_sum(self, counts))]]

\* "<feature-name>:<symbol>" is the pair <<feature-name, symbol>>.
_prefix_feature_names(self, features) ==
    [i \in DOMAIN features |->
        [key |-> <<self.name, features[i].key>>, val |-> features[i].val]]

\* Feature.__call__(doc, vocab): the returned Series, with the local
\* all_counts kept beside it.
Feature__call__(self, doc, voc) ==
    LET counted_features == func(self, doc)
        all_counts == IF voc.has
                      THEN _include_zero_vocab_counts(self, counted_features, voc.syms)
                      ELSE SeriesOf(counted_features)
        normalized_counts == _normalize(self, all_counts, doc.num_tokens)
    IN [counts |-> all_counts,
        series |-> _prefix_feature_names(self, normalized_counts)]

----------------------------------------------------------------------------
(* Configuration and get_activated_features *)

NoneConfig == [given |-> FALSE, items |-> <<>>]
Config(items) == [given |-> TRUE, items |-> items]

default_config ==
    <<<<"pos_unigrams", 1>>, <<"pos_bigrams", 1>>, <<"func_words", 1>>,
      <<"punctuation", 1>>, <<"letters", 0>>, <<"emojis", 1>>,
      <<"dep_labels", 1>>, <<"morph_tags", 1>>, <<"sentences", 1>>,
      <<"num_tokens", 1>>>>

Ok(feats) == [kind |-> "ok", feats |-> feats]
Raise(kind) == [kind |-> kind, feats |-> <<>>]

\* Mutant: an unregistered name is skipped instead of looked up.
get_activated_features_skip_unknown(config) ==
    LET items == IF config.given THEN config.items ELSE default_config
        active == SelectSeq(items, LAMBDA it :
                      it[2] = 1 /\ it[1] \in DOMAIN REGISTERD_FEATURES)
    IN Ok([i \in DOMAIN active |-> REGISTERD_FEATURES[active[i][1]]])

\* Mutant: the flag is not consulted.
get_activated_features_ignore_flag(config) ==
    LET items == IF config.given THEN config.items ELSE default_config
    IN IF \E i \in DOMAIN items : items[i][1] \notin DOMAIN REGISTERD_FEATURES
       THEN Raise("KeyError")
       ELSE Ok([i \in DOMAIN items |-> REGISTERD_FEATURES[items[i][1]]])

\* [REGISTERD_FEATURES[feat_name] for feat_name, num in config.items() if num == 1]
get_activated_features(config) ==
    LET items == IF config.given THEN config.items ELSE default_config
        active == SelectSeq(items, LAMBDA it : it[2] = 1)
    IN IF \E i \in DOMAIN active : active[i][1] \notin DOMAIN REGISTERD_FEATURES
       THEN Raise("KeyError")
       ELSE Ok([i \in DOMAIN active |-> REGISTERD_FEATURES[active[i][1]]])

----------------------------------------------------------------------------
(* DataFrames *)

NoFrame == [index |-> <<>>, columns |-> <<>>, rows |-> <<>>]

\* pd.RangeIndex(n): the labels 0..n-1
RangeIndex(n) == [i \in 1..n |-> i - 1]

Fields == {"fullText", "authorIDs", "documentID"}

\* A loaded frame: its columns are a set of field names.
NoDataFrame == [index |-> <<>>, columns |-> {}, rows |-> <<>>]

\* pd.read_json(file, lines=True): one row per record, labelled 0..n-1; the
\* columns are the fields the records carry.
read_json(file) ==
    [index |-> RangeIndex(Len(file)),
     columns |-> UNION {DOMAIN file[i] : i \in DOMAIN file},
     rows |-> file]

\* pd.concat(dfs): rows and labels appended in order.
concat(dfs) ==
    [index |-> Flatten([i \in DOMAIN dfs |-> dfs[i].index]),
     columns |-> UNION {dfs[i].columns : i \in DOMAIN dfs},
     rows |-> Flatten([i \in DOMAIN dfs |-> dfs[i].rows])]

\* df.reset_index(drop=True)
reset_index(frame) == [frame EXCEPT !.index = RangeIndex(Len(frame.rows))]

\* Mutant: the concatenated frame keeps each file's own row labels.
load_jsonlines_no_reset(path) ==
    IF path.jsonl
    THEN [kind |-> "ok", frame |-> read_json(path.files[1])]
    ELSE LET dfs == [i \in DOMAIN path.files |-> read_json(path.files[i])]
         IN IF dfs = <<>>
            THEN [kind |-> "ValueError", frame |-> NoDataFrame]
            ELSE [kind |-> "ok", frame |-> concat(dfs)]

\* load_jsonlines(path): path.jsonl says whether the path ends with ".jsonl";
\* path.files are the .jsonl files found there.
load_jsonlines(path) ==
    IF path.jsonl
    THEN [kind |-> "ok", frame |-> read_json(path.files[1])]
    ELSE LET dfs == [i \in DOMAIN path.files |-> read_json(path.files[i])]
         IN IF dfs = <<>>
            THEN [kind |-> "ValueError", frame |-> NoDataFrame]
            ELSE [kind |-> "ok", frame |-> reset_index(concat(dfs))]

\* df[field]: a Series with the frame's labels.
Column(frame, field) ==
    [index |-> frame.index,
     values |-> [i \in DOMAIN frame.rows |-> frame.rows[i][field]]]

NoEntries == [documents |-> <<>>, author_ids |-> <<>>, document_ids |-> <<>>]

\* Mutant: a missing column reads as empty values instead of raising.
_get_json_entries_no_raise(frame) ==
    LET get(field, default) ==
            [index |-> frame.index,
             values |-> [i \in DOMAIN frame.rows |->
                            IF field \in DOMAIN frame.rows[i]
                            THEN frame.rows[i][field] ELSE default]]
    IN [kind |-> "ok",
        val |-> [documents |-> get("fullText", <<>>),
                 author_ids |-> get("authorIDs", ""),
                 document_ids |-> get("documentID", "")]]

_get_json_entries(frame) ==
    IF Fields \subseteq frame.columns
    THEN [kind |-> "ok",
          val |-> [documents |-> Column(frame, "fullText"),
                   author_ids |-> Column(frame, "authorIDs"),
                   document_ids |-> Column(frame, "documentID")]]
    ELSE [kind |-> "KeyError", val |-> NoEntries]

----------------------------------------------------------------------------
(* Pipeline *)

\* " ".join(demoji.replace(document, "").split())
_remove_emojis(document) == demoji_replace(document)

_process_documents(documents) ==
    LET cleaned_docs == [i \in DOMAIN documents |-> _remove_emojis(documents[i])]
        nlp_docs == nlp_pipe(cleaned_docs)
        original_token_counts == [i \in DOMAIN nlp_docs |-> Len(nlp_docs[i].tokens)]
        sentence_counts == [i \in DOMAIN nlp_docs |-> Len(nlp_docs[i].sents)]
    IN [i \in DOMAIN documents |->
            Gram2VecDocument(documents[i], nlp_docs[i],
                             original_token_counts[i], sentence_counts[i])]

DimName == <<"0", "1", "2">>

\* pd.Series(doc.doc.vector).add_prefix("Embedding dim: ")
_content_embedding(doc) ==
    [i \in DOMAIN doc.doc.vector |->
        [key |-> <<"Embedding dim: ", DimName[i]>>, val |-> doc.doc.vector[i]]]

\* One document's vector: [kind, series].
_apply_features(doc, config, include_content_embedding) ==
    LET activated == get_activated_features(config)
        features ==
            [i \in DOMAIN activated.feats |->
                IF activated.feats[i].name = "num_tokens"
                THEN Feature__call__(activated.feats[i], doc, NoVocab).series
                ELSE Feature__call__(activated.feats[i], doc,
                                     vocab_get(activated.feats[i].name)).series]
            \o (IF include_content_embedding
                THEN <<_content_embedding(doc)>> ELSE <<>>)
    IN IF activated.kind # "ok" THEN [kind |-> activated.kind, series |-> <<>>]
       ELSE IF features = <<>> THEN [kind |-> "ValueError", series |-> <<>>]
       ELSE [kind |-> "ok", series |-> Flatten(features)]

\* The value a row holds under a column: the vector's own, or the missing
\* value pd.concat fills in.
Cell(series, key) ==
    IF \E i \in DOMAIN series : series[i].key = key
    THEN series[CHOOSE i \in DOMAIN series : series[i].key = key].val
    ELSE NaN

\* pd.concat(feature_vectors, axis=1).T: one row per vector, labelled 0..n-1,
\* the columns the union of the vectors' keys in first-seen order.
ConcatRows(feature_vectors) ==
    LET columns == Dedup(Flatten([i \in DOMAIN feature_vectors |->
                                        Keys(feature_vectors[i])]))
    IN [index |-> RangeIndex(Len(feature_vectors)),
        columns |-> columns,
        rows |-> [i \in DOMAIN feature_vectors |->
                    [j \in DOMAIN columns |-> Cell(feature_vectors[i], columns[j])]]]

\* Mutant: every row is computed from the first document.
_apply_features_to_docs_first_doc(docs, config, include_content_embedding) ==
    LET vectors == [i \in DOMAIN docs |->
                        _apply_features(docs[1], config, include_content_embedding)]
    IN IF docs = <<>> THEN [kind |-> "ValueError", frame |-> NoFrame]
       ELSE IF vectors[1].kind # "ok" THEN [kind |-> vectors[1].kind, frame |-> NoFrame]
       ELSE [kind |-> "ok",
             frame |-> ConcatRows([i \in DOMAIN vectors |-> vectors[i].series])]

_apply_features_to_docs(docs, config, include_content_embedding) ==
    LET vectors == [i \in DOMAIN docs |->
                        _apply_features(docs[i], config, include_content_embedding)]
    IN IF docs = <<>> THEN [kind |-> "ValueError", frame |-> NoFrame]
       ELSE IF vectors[1].kind # "ok" THEN [kind |-> vectors[1].kind, frame |-> NoFrame]
       ELSE [kind |-> "ok",
             frame |-> ConcatRows([i \in DOMAIN vectors |-> vectors[i].series])]

from_documents(documents, config, include_content_embedding) ==
    _apply_features_to_docs(_process_documents(documents), config,
                            include_content_embedding)

AuthorColumn == <<"authorIDs", "">>

\* vector_df.insert(0, "authorIDs", author_ids): the values are aligned to the
\* matrix's row labels unless the two indexes are equal.
insert_authorIDs(frame, author_ids) ==
    LET dup == \E i, j \in DOMAIN author_ids.index :
                    i # j /\ author_ids.index[i] = author_ids.index[j]
        at(l) == IF \E i \in DOMAIN author_ids.index : author_ids.index[i] = l
                 THEN ObjV(author_ids.values[
                        CHOOSE i \in DOMAIN author_ids.index : author_ids.index[i] = l])
                 ELSE NaN
        col == IF author_ids.index = frame.index
               THEN [i \in DOMAIN frame.index |-> ObjV(author_ids.values[i])]
               ELSE [i \in DOMAIN frame.index |-> at(frame.index[i])]
    IN IF author_ids.index # frame.index /\ dup
       THEN [kind |-> "ValueError", frame |-> NoFrame]
       ELSE [kind |-> "ok",
             frame |-> [frame EXCEPT !.columns = <<AuthorColumn>> \o @,
                                     !.rows = [i \in DOMAIN @ |-> <<col[i]>> \o @[i]]]]

\* vector_df.set_index(document_ids, inplace=True): the ids become the row
\* labels by position.
set_index(frame, document_ids) ==
    IF Len(document_ids.values) # Len(frame.rows)
    THEN [kind |-> "ValueError", frame |-> NoFrame]
    ELSE [kind |-> "ok", frame |-> [frame EXCEPT !.index = document_ids.values]]

----------------------------------------------------------------------------
(* Inputs *)

ConfigNames == Range(FeatureFuncs) \cup {"bogus_feature"}

\* A dict's items: distinct names, each with a flag.
ConfigItems(n) ==
    UNION {{s \in [1..k -> ConfigNames \X {0, 1}] :
                \A i, j \in 1..k : i # j => s[i][1] # s[j][1]} : k \in 0..n}

Configs == {NoneConfig} \cup {Config(s) : s \in ConfigItems(MaxConfigLen)}

PipeConfigs ==
    {NoneConfig} \cup {Config(s) : s \in ConfigItems(1)}
    \cup {Config(<<<<"letters", 1>>, <<"num_tokens", 1>>>>),
          Config(<<<<"pos_unigrams", 1>>, <<"bogus_feature", 1>>>>)}

\* The vocabularies handed to a Feature call; "z" occurs in no text.
CallVocabs == VocabChoices \cup {VocabOf(<<"z", "a">>), EmojiVocab}

DocLists == UNION {[1..k -> PipeTexts] : k \in 0..MaxDocs}

Authors == {"A1", "A2"}
DocIds == {"d1", "d2"}
JsonTexts == {<<"a">>, <<"b", "E2">>}

FullRecords == [fullText : JsonTexts, authorIDs : Authors, documentID : DocIds]

\* The files whose records all carry the fields of `present`.
JsonFiles(present) ==
    UNION {[1..k -> {[f \in present |-> r[f]] : r \in FullRecords}] : k \in 0..MaxDocs}

\* One .jsonl file, or a directory of up to two.
Paths(present) ==
    {[jsonl |-> TRUE, files |-> <<f>>] : f \in JsonFiles(present)}
    \cup {[jsonl |-> FALSE, files |-> fs] :
            fs \in {gs \in UNION {[1..k -> JsonFiles(present)] : k \in 0..2} :
                        Len(Flatten(gs)) <= MaxDocs}}

PresentSets == {Fields} \cup {Fields \ {f} : f \in Fields}

JsonConfigs == {NoneConfig, Config(<<<<"letters", 1>>, <<"num_tokens", 1>>>>)}

----------------------------------------------------------------------------
(* State machine *)

NoDoc == Gram2VecDocument(<<>>, nlp(<<>>), 0, 0)

NoArgs ==
    [config |-> NoneConfig, feat |-> "", doc |-> NoDoc, voc |-> NoVocab,
     documents |-> <<>>, emb |-> FALSE, path |-> [jsonl |-> TRUE, files |-> <<>>]]

NoRet == [kind |-> "none", feats |-> <<>>, counts |-> <<>>, series |-> <<>>,
          frame |-> NoFrame]

Init ==
    /\ vocab \in VocabTables
    /\ op = "idle"
    /\ args = NoArgs
    /\ pc = "idle"
    /\ df = NoDataFrame
    /\ entries = NoEntries
    /\ g2v = <<>>
    /\ vector_df = NoFrame
    /\ trace = <<>>
    /\ ret = NoRet

\* get_activated_features(config)
CallGetActivatedFeatures ==
    /\ op = "idle"
    /\ \E config \in Configs :
        LET r == get_activated_features(config)
        IN /\ args' = [NoArgs EXCEPT !.config = config]
           /\ ret' = [NoRet EXCEPT !.kind = r.kind, !.feats = r.feats]
    /\ op' = "get_activated_features"
    /\ pc' = "done"
    /\ UNCHANGED <<vocab, df, entries, g2v, vector_df, trace>>

\* REGISTERD_FEATURES[name](doc, vocab) on the document made of one text
CallFeature ==
    /\ op = "idle"
    /\ \E name \in DOMAIN REGISTERD_FEATURES, text \in Texts(MaxTextLen),
          voc \in CallVocabs :
        LET doc == _process_documents(<<text>>)[1]
            r == Feature__call__(REGISTERD_FEATURES[name], doc, voc)
        IN /\ args' = [NoArgs EXCEPT !.feat = name, !.doc = doc, !.voc = voc]
           /\ ret' = [NoRet EXCEPT !.kind = "ok", !.counts = r.counts,
                                   !.series = r.series]
    /\ op' = "Feature"
    /\ pc' = "done"
    /\ UNCHANGED <<vocab, df, entries, g2v, vector_df, trace>>

\* from_documents(documents, config, include_content_embedding)
CallFromDocuments ==
    /\ op = "idle"
    /\ \E documents \in DocLists, config \in PipeConfigs, emb \in BOOLEAN :
        LET r == from_documents(documents, config, emb)
        IN /\ args' = [NoArgs EXCEPT !.documents = documents, !.config = config,
                                     !.emb = emb]
           /\ ret' = [NoRet EXCEPT !.kind = r.kind, !.frame = r.frame]
    /\ op' = "from_documents"
    /\ pc' = "done"
    /\ UNCHANGED <<vocab, df, entries, g2v, vector_df, trace>>

\* from_jsonlines(path, config): df = load_jsonlines(path)
CallFromJsonlines ==
    /\ op = "idle"
    /\ \E present \in PresentSets :
       \E path \in Paths(present), config \in JsonConfigs :
        LET r == load_jsonlines(path)
        IN /\ args' = [NoArgs EXCEPT !.path = path, !.config = config]
           /\ df' = r.frame
           /\ IF r.kind = "ok"
              THEN pc' = "entries" /\ ret' = NoRet
              ELSE pc' = "done" /\ ret' = [NoRet EXCEPT !.kind = r.kind]
    /\ op' = "from_jsonlines"
    /\ trace' = <<"load_jsonlines">>
    /\ UNCHANGED <<vocab, entries, g2v, vector_df>>

\* documents, author_ids, document_ids = _get_json_entries(df)
GetJsonEntries ==
    /\ op = "from_jsonlines" /\ pc = "entries"
    /\ LET r == _get_json_entries(df)
       IN /\ entries' = r.val
          /\ IF r.kind = "ok"
             THEN pc' = "process" /\ ret' = ret
             ELSE pc' = "done" /\ ret' = [NoRet EXCEPT !.kind = r.kind]
    /\ trace' = Append(trace, "_get_json_entries")
    /\ UNCHANGED <<vocab, op, args, df, g2v, vector_df>>

\* documents = _process_documents(documents)
ProcessDocuments ==
    /\ op = "from_jsonlines" /\ pc = "process"
    /\ g2v' = _process_documents(entries.documents.values)
    /\ pc' = "apply"
    /\ trace' = Append(trace, "_process_documents")
    /\ UNCHANGED <<vocab, op, args, df, entries, vector_df, ret>>

\* vector_df = _apply_features_to_docs(documents, config, include_content_embedding)
ApplyFeaturesToDocs ==
    /\ op = "from_jsonlines" /\ pc = "apply"
    /\ LET r == _apply_features_to_docs(g2v, args.config, args.emb)
       IN /\ vector_df' = r.frame
          /\ IF r.kind = "ok"
             THEN pc' = "attach" /\ ret' = ret
             ELSE pc' = "done" /\ ret' = [NoRet EXCEPT !.kind = r.kind]
    /\ trace' = Append(trace, "_apply_features_to_docs")
    /\ UNCHANGED <<vocab, op, args, df, entries, g2v>>

\* vector_df.insert(0, "authorIDs", author_ids);
\* vector_df.set_index(document_ids, inplace=True); return vector_df
AttachMetadata ==
    /\ op = "from_jsonlines" /\ pc = "attach"
    /\ LET a == insert_authorIDs(vector_df, entries.author_ids)
           b == set_index(a.frame, entries.document_ids)
       IN IF a.kind # "ok" THEN ret' = [NoRet EXCEPT !.kind = a.kind]
          ELSE ret' = [NoRet EXCEPT !.kind = b.kind, !.frame = b.frame]
    /\ pc' = "done"
    /\ trace' = Append(trace, "attach")
    /\ UNCHANGED <<vocab, op, args, df, entries, g2v, vector_df>>

\* The caller takes the result; the module is ready for the next call.
Return ==
    /\ pc = "done"
    /\ op' = "idle"
    /\ args' = NoArgs
    /\ pc' = "idle"
    /\ df' = NoDataFrame
    /\ entries' = NoEntries
    /\ g2v' = <<>>
    /\ vector_df' = NoFrame
    /\ trace' = <<>>
    /\ ret' = NoRet
    /\ UNCHANGED vocab

Next ==
    \/ CallGetActivatedFeatures
    \/ CallFeature
    \/ CallFromDocuments
    \/ CallFromJsonlines
    \/ GetJsonEntries
    \/ ProcessDocuments
    \/ ApplyFeaturesToDocs
    \/ AttachMetadata
    \/ Return

Spec == Init /\ [][Next]_vars

----------------------------------------------------------------------------
(* Properties *)

FeatureDone == op = "Feature" /\ pc = "done"

\* The annotation attribute an annotation-backed feature counts.
AttrOf(feat) == IF feat = "pos_unigrams" THEN "pos_tags" ELSE feat

\* The emoji symbols of the process-wide emoji vocabulary.
KnownEmojis == Range(vocab["emojis"].syms) \cap Emojis

\* How often the document shows `sym` to feature `feat`.
Occurrences(feat, doc, sym) ==
    IF feat = "emojis"
    THEN IF sym = OOV
         THEN Cardinality({i \in DOMAIN doc.raw : doc.raw[i] \in Emojis \ KnownEmojis})
         ELSE IF sym \in KnownEmojis THEN Occ(doc.raw, sym) ELSE 0
    ELSE IF feat = "num_tokens"
         THEN IF sym = "num_tokens" THEN doc.num_tokens ELSE 0
         ELSE Occ(doc.doc.ext[AttrOf(feat)], sym)

\* The symbols the document shows to feature `feat`.
Shown(feat, doc) ==
    {sym \in Chunks \cup {OOV, "num_tokens"} : Occurrences(feat, doc, sym) > 0}

\* x is the quotient c / n of a nonzero n.
IsQuotient(x, c, n) == x.k = "num" /\ x.d > 0 /\ x.n * n = c * x.d

Zero == NumV(0, 1)
One == NumV(1, 1)

\* Exact sum of floats; NaN and inf are absorbing.
FAdd(x, y) ==
    IF x.k = "nan" \/ y.k = "nan" THEN NaN
    ELSE IF x.k = "inf" \/ y.k = "inf" THEN Inf
    ELSE NumV(x.n * y.d + y.n * x.d, x.d * y.d)

RECURSIVE FSum(_)
FSum(s) == IF s = <<>> THEN NumV(0, 1) ELSE FAdd(Head(s).val, FSum(Tail(s)))

\* C1: a Feature call with a vocabulary returns one entry per vocabulary
\* symbol, in vocabulary order, keyed "<feature-name>:<symbol>"; before
\* normalisation the entry holds the symbol's number of occurrences in the
\* document (0 when it does not occur), and symbols outside the vocabulary
\* get no entry: the width is the vocabulary's size.
C1_VocabularyAligned ==
    (FeatureDone /\ args.voc.has) =>
        LET voc == args.voc.syms
        IN /\ Len(ret.series) = Len(voc)
           /\ Len(ret.counts) = Len(voc)
           /\ \A i \in 1..Len(voc) :
                /\ ret.series[i].key = <<args.feat, voc[i]>>
                /\ ret.counts[i].key = voc[i]
                /\ ret.counts[i].val = Occurrences(args.feat, args.doc, voc[i])

\* C1 witness: a vocabulary symbol counted twice, one absent from the
\* document, and a symbol of the document absent from the vocabulary.
C1_Witness ==
    /\ FeatureDone /\ args.voc.has
    /\ \E i \in DOMAIN ret.counts : ret.counts[i].val = 2
    /\ \E i \in DOMAIN ret.counts : ret.counts[i].val = 0
    /\ Shown(args.feat, args.doc) \ Range(args.voc.syms) # {}

\* C2: the normalised vector of a distributional feature sums to 1 when the
\* counts it normalises are not all zero, and is all zero (sum 0) when they
\* are; no value is NaN or inf.
C2_DistributionalSum ==
    (FeatureDone /\ args.feat \in {"pos_unigrams", "pos_bigrams", "dep_labels",
                                   "morph_tags", "letters"}) =>
        /\ \A i \in DOMAIN ret.series : ret.series[i].val.k = "num"
        /\ IF \E i \in DOMAIN ret.counts : ret.counts[i].val # 0
           THEN FSum(ret.series) = One
           ELSE /\ FSum(ret.series) = Zero
                /\ \A i \in DOMAIN ret.series : ret.series[i].val = Zero

\* C2 witness: a distributional vector with two different nonzero shares.
C2_Witness ==
    /\ FeatureDone /\ args.feat = "dep_labels"
    /\ \E i, j \in DOMAIN ret.series :
          /\ ret.series[i].val = NumV(1, 3)
          /\ ret.series[j].val = NumV(2, 3)

\* C3: every value of a density feature is count / token count when the
\* document has tokens, and is a defined number (never NaN or inf) when it
\* has none; the call returns.
C3_DensityDefined ==
    (FeatureDone /\ args.feat \in {"emojis", "punctuation", "func_words", "sentences"}) =>
        /\ ret.kind = "ok"
        /\ \A i \in DOMAIN ret.series :
              IF args.doc.num_tokens > 0
              THEN IsQuotient(ret.series[i].val, ret.counts[i].val, args.doc.num_tokens)
              ELSE ret.series[i].val.k = "num"

\* The names a configuration carries (none when no configuration is given).
UnknownNames(config) ==
    {config.items[i][1] : i \in DOMAIN config.items} \ DOMAIN REGISTERD_FEATURES

UnknownActiveNames(config) ==
    {config.items[i][1] : i \in {j \in DOMAIN config.items : config.items[j][2] = 1}}
        \ DOMAIN REGISTERD_FEATURES

GetActivatedDone == op = "get_activated_features" /\ pc = "done"

ItemsOf(config) == IF config.given THEN config.items ELSE default_config
PositionOf(config, name) ==
    CHOOSE i \in DOMAIN ItemsOf(config) : ItemsOf(config)[i][1] = name

\* C8: get_activated_features returns the registered descriptors flagged 1,
\* each once and in the configuration's order, and no other; without a
\* configuration it returns the nine default feature types, letters excluded.
C8_ActivatedExactly ==
    GetActivatedDone =>
        LET items == ItemsOf(args.config)
            names == [i \in DOMAIN ret.feats |-> ret.feats[i].name]
        IN /\ UnknownNames(args.config) = {} => ret.kind = "ok"
           /\ ret.kind = "ok" =>
                /\ \A n \in ConfigNames :
                      (n \in Range(names)) <=> (\E i \in DOMAIN items : items[i] = <<n, 1>>)
                /\ \A i \in DOMAIN names : ret.feats[i] = REGISTERD_FEATURES[names[i]]
                /\ \A i, j \in DOMAIN names :
                      i < j => PositionOf(args.config, names[i])
                                    < PositionOf(args.config, names[j])
           /\ ~args.config.given =>
                names = <<"pos_unigrams", "pos_bigrams", "func_words", "punctuation",
                          "emojis", "dep_labels", "morph_tags", "sentences",
                          "num_tokens">>

\* C8 witness: two activated features, configured against registration order.
C8_Witness ==
    /\ GetActivatedDone
    /\ args.config = Config(<<<<"num_tokens", 1>>, <<"pos_unigrams", 1>>>>)
    /\ ret.kind = "ok"
    /\ Len(ret.feats) = 2

\* The records of the input, in file order.
JsonRecords == Flatten(args.path.files)

JsonlinesDone == op = "from_jsonlines" /\ pc = "done"

\* The vector _apply_features computes for one text on its own.
OwnVector(text, config, emb) ==
    _apply_features(_process_documents(<<text>>)[1], config, emb)

\* C5: from_jsonlines over N records carrying the three fields returns a
\* matrix whose row i is labelled with record i's document id, holds record
\* i's author id in the leading authorIDs column and, in the feature
\* columns, the values computed from record i's text; neither id is a
\* feature column.
C5_RowsAligned ==
    (JsonlinesDone /\ JsonRecords # <<>>
        /\ \A i \in DOMAIN JsonRecords : DOMAIN JsonRecords[i] = Fields) =>
        LET frame == ret.frame
            N == Len(JsonRecords)
        IN /\ ret.kind = "ok"
           /\ Len(frame.rows) = N /\ Len(frame.index) = N
           /\ frame.columns[1] = AuthorColumn
           /\ \A j \in 2..Len(frame.columns) : frame.columns[j] # AuthorColumn
           /\ \A i \in 1..N :
                LET own == OwnVector(JsonRecords[i].fullText, args.config, args.emb)
                IN /\ frame.index[i] = JsonRecords[i].documentID
                   /\ frame.rows[i][1] = ObjV(JsonRecords[i].authorIDs)
                   /\ Len(frame.rows[i]) = Len(frame.columns)
                   /\ Range(Keys(own.series)) \subseteq Range(frame.columns)
                   /\ \A j \in 2..Len(frame.columns) :
                        /\ frame.rows[i][j].k # "obj"
                        /\ frame.rows[i][j] = Cell(own.series, frame.columns[j])

\* C5 witness: a directory of two files, one record each, with different
\* texts, authors and document ids.
C5_Witness ==
    /\ JsonlinesDone /\ ret.kind = "ok"
    /\ ~args.path.jsonl /\ Len(args.path.files) = 2
    /\ Len(args.path.files[1]) = 1 /\ Len(args.path.files[2]) = 1
    /\ JsonRecords[1].fullText # JsonRecords[2].fullText
    /\ JsonRecords[1].authorIDs # JsonRecords[2].authorIDs
    /\ JsonRecords[1].documentID # JsonRecords[2].documentID
    /\ ret.frame.index = <<JsonRecords[1].documentID, JsonRecords[2].documentID>>

\* The loaded input lacks one of the three fields.
InputLacksField ==
    /\ op = "from_jsonlines"
    /\ args.path.files # <<>>
    /\ \E f \in Fields : \A i \in DOMAIN JsonRecords : f \notin DOMAIN JsonRecords[i]

\* C7: when the loaded input lacks one of fullText, authorIDs, documentID,
\* from_jsonlines fails with the missing-fields error, no annotation has run
\* and no matrix is returned; annotation never precedes the field check.
C7_FailsBeforeAnnotation ==
    /\ InputLacksField =>
          /\ "_process_documents" \notin Range(trace)
          /\ g2v = <<>>
          /\ pc = "done" => (ret.kind = "KeyError" /\ ret.frame = NoFrame)
    /\ \A i \in DOMAIN trace :
          trace[i] = "_process_documents" =>
              \E j \in 1..(i - 1) : trace[j] = "_get_json_entries"

\* C7 witness: two records without author ids, refused at the field check.
C7_Witness ==
    /\ InputLacksField /\ pc = "done"
    /\ Len(JsonRecords) = 2
    /\ \A i \in DOMAIN JsonRecords : DOMAIN JsonRecords[i] = Fields \ {"authorIDs"}
    /\ ret.kind = "KeyError"
    /\ trace = <<"load_jsonlines", "_get_json_entries">>

FromDocumentsOk == op = "from_documents" /\ pc = "done" /\ ret.kind = "ok"

\* C6: in the matrix of _apply_features_to_docs every row has a cell for
\* every column, and a cell whose column key the document's own vector lacks
\* holds 0.
C6_MissingCellsAreZero ==
    FromDocumentsOk =>
        \A i \in DOMAIN ret.frame.rows :
            LET own == OwnVector(args.documents[i], args.config, args.emb)
            IN /\ Len(ret.frame.rows[i]) = Len(ret.frame.columns)
               /\ \A j \in DOMAIN ret.frame.columns :
                    ret.frame.columns[j] \notin Range(Keys(own.series))
                        => ret.frame.rows[i][j] = Zero

\* Every activated feature type has a fixed vocabulary (or is num_tokens).
AllVocabularyBacked(config) ==
    LET activated == get_activated_features(config)
    IN \A i \in DOMAIN activated.feats :
          \/ activated.feats[i].name = "num_tokens"
          \/ vocab_get(activated.feats[i].name).has

C10_EmojiVector ==
    (FeatureDone /\ args.feat = "emojis" /\ args.voc = vocab["emojis"]) =>
        /\ \E i \in DOMAIN ret.series : ret.series[i].key = <<"emojis", OOV>>
        /\ args.doc.num_tokens = Len(demoji_replace(args.doc.raw))
        /\ \A i \in DOMAIN ret.series :
              LET c == Occurrences("emojis", args.doc, ret.series[i].key[2])
              IN IF c = 0 THEN ret.series[i].val = Zero
                 ELSE IsQuotient(ret.series[i].val, c, args.doc.num_tokens)

====
